---- MODULE Spec2Model ----
(***************************************************************************)
(* The four POSCAR editing scripts of SurfaceSlabEditor:                   *)
(*   modify_c_lattice.py  (LatticeCShift)                                  *)
(*   restore_z.py         (AxisRestore)                                    *)
(*   shift_c_direct.py    (DirectCShift)                                   *)
(*   translate_c.py       (PeriodicTranslate)                              *)
(* One run of one script is one behaviour: the script's main() up to the   *)
(* open(outfile, "w") is one action, the open and the write loop are two   *)
(* more.                                                                   *)
(*                                                                         *)
(* A line of text is the sequence of its whitespace separated tokens       *)
(* (line.split()); leading and trailing blanks are not represented.        *)
(* A token is a record [k, v, s]:                                          *)
(*   k = "int"  : a string of digits (str.isdigit() holds), v its value    *)
(*   k = "flt"  : any other text float() accepts, v the float it parses to *)
(*   k = "word" : text neither int() nor float() accepts, s the text       *)
(*                                                                         *)
(* Numbers.  A Python float is modelled as a decimal floating point number *)
(* with Precision significant digits on a grid of 10^-Frac: the integer n  *)
(* stands for n * 10^-Frac, and every arithmetic result is rounded         *)
(* half-even to Precision digits (Fl), as IEEE-754 rounds to 53 bits.      *)
(* TLC's integers are 32 bits wide, so the widths are scaled down: the     *)
(* 10 decimals of "%15.10f" become DecimalsA, the 16 decimals of           *)
(* "%23.16f" become DecimalsB, keeping                                     *)
(*   DecimalsA < DecimalsB <= Precision < Frac + 1                         *)
(* as in the original (10 < 16 <= 17 significant digits, grid far below).  *)
(***************************************************************************)
EXTENDS Integers, Sequences, FiniteSets

\* ---------------------------------------------------------------- bounds
Precision == 2
Frac == 3
DecimalsA == 1
DecimalsB == 2
MaxAtoms == 2

\* ------------------------------------------------------------- arithmetic
RECURSIVE Pow10(_)
Pow10(k) == IF k <= 0 THEN 1 ELSE 10 * Pow10(k - 1)

One == Pow10(Frac)

Abs(n) == IF n < 0 THEN -n ELSE n

RECURSIVE Digits(_)
Digits(n) == IF n < 10 THEN 1 ELSE 1 + Digits(n \div 10)

\* n rounded to a multiple of step, ties to the even multiple
RoundHalfEven(n, step) ==
  LET q == n \div step
      r == n % step
  IN  IF 2 * r < step THEN q * step
      ELSE IF 2 * r > step THEN (q + 1) * step
      ELSE IF q % 2 = 0 THEN q * step ELSE (q + 1) * step

\* the float nearest to the real number n * 10^-Frac
Fl(n) ==
  LET d == Digits(Abs(n))
  IN  IF d <= Precision THEN n ELSE RoundHalfEven(n, Pow10(d - Precision))

FAdd(x, y) == Fl(x + y)
FSub(x, y) == Fl(x - y)
\* n / d rounded to the nearest integer, d # 0
RoundDiv(n, d) ==
  IF d > 0 THEN RoundHalfEven(n, d) \div d ELSE RoundHalfEven(-n, -d) \div (-d)

FMul(x, y) == Fl(RoundDiv(x * y, One))
FDiv(x, y) == Fl(RoundDiv(x * One, y))

\* Python's x % 1.0 (float_rem): fmod is exact; a negative remainder gets
\* 1.0 added, and that sum is rounded
PyMod1(x) ==
  LET r == x % One
  IN  IF x >= 0 \/ r = 0 THEN r ELSE Fl(r)

RECURSIVE SqrtSearch(_, _, _)
SqrtSearch(s, lo, hi) ==
  IF lo >= hi THEN lo
  ELSE LET mid == (lo + hi + 1) \div 2
       IN  IF mid * mid <= s THEN SqrtSearch(s, mid, hi)
           ELSE SqrtSearch(s, lo, mid - 1)

\* sqrt(x): the nearest grid point to the root of x * 10^-Frac
FSqrt(x) ==
  LET s == x * One
      r == SqrtSearch(s, 0, 46340)
  IN  Fl(IF s - r * r <= r THEN r ELSE r + 1)

\* numpy's dot of two 1-d arrays of equal length: multiply, then accumulate
RECURSIVE DotFrom(_, _, _)
DotFrom(x, y, i) ==
  IF i > Len(x) THEN 0 ELSE FAdd(FMul(x[i], y[i]), DotFrom(x, y, i + 1))

Dot(x, y) == DotFrom(x, y, 1)

\* ----------------------------------------------------------------- tokens
I(n) == [k |-> "int", v |-> n, s |-> ""]
F(n) == [k |-> "flt", v |-> n, s |-> ""]
W(t) == [k |-> "word", v |-> 0, s |-> t]

\* str.isdigit()
IsDigit(t) == t.k = "int"

\* float(t) succeeds
FloatOk(t) == t.k \in {"int", "flt"}

\* float(t)
ToFloat(t) == IF t.k = "int" THEN Fl(t.v * One) ELSE t.v

\* int(t) succeeds
IntOk(t) == t.k = "int"

\* line[0].lower() of a non-empty stripped line
FirstLower(line) ==
  LET t == line[1]
  IN  IF t.k # "word" THEN "0"
      ELSE CASE t.s \in {"Direct", "direct", "D"} -> "d"
             [] t.s \in {"Cartesian", "cartesian", "C"} -> "c"
             [] t.s \in {"Kartesisch", "K"} -> "k"
             [] t.s \in {"Selective", "Si"} -> "s"
             [] OTHER -> "x"

AllFloat(line) == \A i \in 1..Len(line) : FloatOk(line[i])
Floats(line) == [i \in 1..Len(line) |-> ToFloat(line[i])]

RECURSIVE SumSeq(_)
SumSeq(q) == IF q = <<>> THEN 0 ELSE Head(q) + SumSeq(Tail(q))

\* Python's lines[a:b] with 0-based a, b: the slice is clipped, never fails
Slice(ls, a, b) ==
  LET hi == IF b < Len(ls) THEN b ELSE Len(ls)
  IN  IF a >= hi THEN <<>> ELSE [i \in 1..(hi - a) |-> ls[a + i]]

\* -------------------------------------------------------------- formatter
\* f"{x:15.10f}": x rounded to DecimalsA decimals
FormatNumberA(x) == F(RoundHalfEven(x, Pow10(Frac - DecimalsA)))
\* f"{x:23.16f}": x rounded to DecimalsB decimals
FormatNumberB(x) == F(RoundHalfEven(x, Pow10(Frac - DecimalsB)))

FormatVectorA(vec) == [i \in 1..Len(vec) |-> FormatNumberA(vec[i])]
FormatVectorB(vec) == [i \in 1..Len(vec) |-> FormatNumberB(vec[i])]


\* result of the part of a main() that runs before open(outfile, "w"):
\* err = "" when it reaches the open, else what stopped the run
\* ("crash": an exception nothing catches, the others: a message and exit 1)
Result(e, hb, bd) == [err |-> e, header_block |-> hb, body |-> bd]
Fail(e) == Result(e, <<>>, <<>>)

\* ------------------------------------------------- modify_c_lattice.py
\* is_atom_count_line: "tokens and all(...)", an empty list is falsy
IsAtomCountLineLattice(line) ==
  line # <<>> /\ \A i \in 1..Len(line) : IsDigit(line[i])

\* one coordinate line of the loop over lines[coords_start:]
LatticeCoordLine(line) ==
  IF Len(line) < 3 THEN line
  ELSE IF ~ AllFloat(SubSeq(line, 1, 3)) THEN line
  ELSE FormatVectorA(Floats(SubSeq(line, 1, 3)))

\* LatticeNewC with the fault of keeping the x and y of c
LatticeNewCKeepsXY(c_vector, delta_z) ==
  <<c_vector[1], c_vector[2], FAdd(c_vector[3], delta_z)>>

LatticeNewC(c_vector, delta_z) == <<0, 0, FAdd(c_vector[3], delta_z)>>

LatticeMain(ls, delta_z) ==
  IF Len(ls) < 7 THEN Fail("too_short")
  ELSE IF ~ (AllFloat(ls[3]) /\ AllFloat(ls[4]) /\ AllFloat(ls[5]))
  THEN Fail("lattice_parse")
  ELSE IF Len(ls[5]) # 3 THEN Fail("c_not_3")
  ELSE
    LET header == ls[1]
        scaling == ls[2]
        lattice_lines == << FormatVectorA(Floats(ls[3])),
                            FormatVectorA(Floats(ls[4])),
                            FormatVectorA(LatticeNewC(Floats(ls[5]), delta_z)) >>
        nosym == IsAtomCountLineLattice(ls[6])
        coords_start == IF nosym THEN 7 ELSE 8
    IN  IF ~ nosym /\ Len(ls) < 8 THEN Fail("crash")
        ELSE
          LET chem_symbols_line == IF nosym THEN header ELSE ls[6]
              atom_counts_line == IF nosym THEN ls[6] ELSE ls[7]
              coord_sys_line == IF nosym THEN ls[7] ELSE ls[8]
              rest == Slice(ls, coords_start, Len(ls))
          IN  IF coord_sys_line = <<>> \/ FirstLower(coord_sys_line) \notin {"c", "k"}
              THEN Fail("coord_sys")
              ELSE Result("",
                     <<header, scaling>> \o lattice_lines
                       \o <<chem_symbols_line, atom_counts_line, coord_sys_line>>,
                     [i \in 1..Len(rest) |-> LatticeCoordLine(rest[i])])

\* -------------------------------------------------------- restore_z.py
\* is_atom_count_line: "all(...)", true of an empty list
IsAtomCountLineRestore(line) == \A i \in 1..Len(line) : IsDigit(line[i])

\* reorder_and_format_line with the fault of reading the tokens as (x, y, z)
reorder_and_format_line_unpermuted(line) ==
  IF Len(line) # 3 THEN line
  ELSE IF ~ AllFloat(line) THEN line
  ELSE <<FormatNumberA(ToFloat(line[1])), FormatNumberA(ToFloat(line[2])),
         FormatNumberA(ToFloat(line[3]))>>

reorder_and_format_line(line) ==
  IF Len(line) # 3 THEN line
  ELSE IF ~ AllFloat(line) THEN line
  ELSE LET z == ToFloat(line[1])
           x == ToFloat(line[2])
           y == ToFloat(line[3])
       IN  <<FormatNumberA(x), FormatNumberA(y), FormatNumberA(z)>>

CountsOk(line) == \A i \in 1..Len(line) : IntOk(line[i])
CountsSum(line) == SumSeq([i \in 1..Len(line) |-> line[i].v])

RestoreMain(ls) ==
  IF Len(ls) < 7 THEN Fail("too_short")
  ELSE
    LET header == ls[1]
        scaling == ls[2]
        lattice == [i \in 1..3 |-> reorder_and_format_line(ls[i + 2])]
        nosym == IsAtomCountLineRestore(ls[6])
        coords_start == IF nosym THEN 7 ELSE 8
    IN  IF ~ nosym /\ Len(ls) < 8 THEN Fail("crash")
        ELSE
          LET chem_symbols == IF nosym THEN header ELSE ls[6]
              atom_counts_line == IF nosym THEN ls[6] ELSE ls[7]
              coord_system_line == IF nosym THEN ls[7] ELSE ls[8]
          IN  IF ~ CountsOk(atom_counts_line) THEN Fail("counts_parse")
              ELSE
                LET natoms == CountsSum(atom_counts_line)
                    coords_end == coords_start + natoms
                IN  IF Len(ls) < coords_end THEN Fail("not_enough_lines")
                    ELSE Result("",
                           <<header, scaling>> \o lattice
                             \o <<chem_symbols, atom_counts_line, coord_system_line>>,
                           [i \in 1..natoms |->
                              reorder_and_format_line(ls[coords_start + i])])

\* --------------------------------------------------- shift_c_direct.py
\* is_atom_count_line: "tokens and all(...)"
IsAtomCountLineDirect(line) ==
  line # <<>> /\ \A i \in 1..Len(line) : IsDigit(line[i])

\* parse_header up to the layout: "" or the first failure of lines 0..5
DirectLatticeErr(ls) ==
  IF Len(ls) < 2 THEN "crash"
  ELSE IF \E i \in 3..5 : i > Len(ls) \/ ~ AllFloat(ls[i])
  THEN LET i == CHOOSE j \in 3..5 :
                  /\ j > Len(ls) \/ ~ AllFloat(ls[j])
                  /\ \A h \in 3..(j - 1) : h <= Len(ls) /\ AllFloat(ls[h])
       IN  IF i > Len(ls) THEN "crash" ELSE "lattice_parse"
  ELSE IF Len(ls) < 6 THEN "crash"
  ELSE ""

\* parse_header: the header block, coords_start, num_atoms, coord_sys_line
parse_header(ls) ==
  LET nosym == IsAtomCountLineDirect(ls[6])
      atom_counts_line == IF nosym THEN ls[6] ELSE ls[7]
      coord_sys_line == IF nosym THEN ls[7] ELSE ls[8]
      lattice == [i \in 1..3 |-> FormatVectorB(Floats(ls[i + 2]))]
  IN  [header_block |->
         <<ls[1], ls[2]>> \o lattice \o
         (IF nosym THEN <<atom_counts_line, coord_sys_line>>
          ELSE <<ls[6], atom_counts_line, coord_sys_line>>),
       coords_start |-> IF nosym THEN 7 ELSE 8,
       num_atoms |-> CountsSum(atom_counts_line),
       coord_sys_line |-> coord_sys_line]

ParseHeaderErr(ls) ==
  IF DirectLatticeErr(ls) # "" THEN DirectLatticeErr(ls)
  ELSE IF Len(ls) < (IF IsAtomCountLineDirect(ls[6]) THEN 7 ELSE 8) THEN "crash"
  ELSE IF ~ CountsOk(IF IsAtomCountLineDirect(ls[6]) THEN ls[6] ELSE ls[7])
  THEN "counts_parse"
  ELSE ""

\* tokens[:3] and tokens[3:]
First3(line) == SubSeq(line, 1, IF Len(line) < 3 THEN Len(line) ELSE 3)
Extras(line) == SubSeq(line, 4, Len(line))

\* the shift of one atom: (d[2] + delta) % 1.0, x and y kept, extras appended
DirectNewLine(line, delta) ==
  LET d == Floats(First3(line))
      new_c == PyMod1(FAdd(d[3], delta))
  IN  FormatVectorB(<<d[1], d[2], new_c>>) \o Extras(line)

DirectDelta(coords_lines, atom_index, target) ==
  FSub(target, ToFloat(coords_lines[atom_index][3]))

DirectMain(ls, atom_index, target) ==
  IF ParseHeaderErr(ls) # "" THEN Fail(ParseHeaderErr(ls))
  ELSE
    LET h == parse_header(ls)
        coords_lines == Slice(ls, h.coords_start, h.coords_start + h.num_atoms)
    IN  IF h.coord_sys_line = <<>> \/ FirstLower(h.coord_sys_line) # "d"
        THEN Fail("coord_sys")
        ELSE IF \E i \in 1..Len(coords_lines) : ~ AllFloat(First3(coords_lines[i]))
        THEN Fail("coord_parse")
        ELSE IF atom_index < 1 \/ atom_index > Len(coords_lines)
        THEN Fail("index_range")
        ELSE IF \E i \in 1..Len(coords_lines) : Len(coords_lines[i]) < 3
        THEN Fail("crash")
        ELSE
          LET delta == DirectDelta(coords_lines, atom_index, target)
          IN  Result("", h.header_block,
                     [i \in 1..Len(coords_lines) |->
                        DirectNewLine(coords_lines[i], delta)])

\* ------------------------------------------------------ translate_c.py
\* is_atom_count_line: "all(...)", true of an empty list
IsAtomCountLineTranslate(line) == \A i \in 1..Len(line) : IsDigit(line[i])

\* atom_indices = [int(x) - 1 for x in atom_indices_str.split(",")]
AtomIndices(str) == {str[i].v - 1 : i \in 1..Len(str)}

VecAdd(x, y) == [i \in 1..Len(x) |-> FAdd(x[i], y[i])]
VecSub(x, y) == [i \in 1..Len(x) |-> FSub(x[i], y[i])]

CNorm(c_vec) == FSqrt(Dot(c_vec, c_vec))
CUnit(c_vec) == [i \in 1..Len(c_vec) |-> FDiv(c_vec[i], CNorm(c_vec))]
Threshold(c_vec) == FDiv(CNorm(c_vec), 2 * One)
Proj(coord_vals, c_vec) == Dot(coord_vals, CUnit(c_vec))

\* TranslateSelected with the fault of testing "proj <= threshold"
TranslateSelectedLe(coord_vals, c_vec) ==
  IF Proj(coord_vals, c_vec) <= Threshold(c_vec)
  THEN VecAdd(coord_vals, c_vec)
  ELSE VecSub(coord_vals, c_vec)

\* the branch of the loop body for a selected atom
TranslateSelected(coord_vals, c_vec) ==
  IF Proj(coord_vals, c_vec) < Threshold(c_vec)
  THEN VecAdd(coord_vals, c_vec)
  ELSE VecSub(coord_vals, c_vec)

\* the loop body for atom i (0-based) whose line parsed
TranslateAtom(line, i, indices, c_vec) ==
  IF i \in indices THEN TranslateSelected(Floats(line), c_vec) ELSE Floats(line)

\* "" or what stops the loop at atom i (0-based)
TranslateAtomErr(line, i, indices, c_vec) ==
  IF ~ AllFloat(line) THEN "coord_parse"
  ELSE IF i \in indices /\ Len(line) # Len(c_vec) THEN "crash"
  ELSE ""

TranslateMain(ls, atom_indices_str) ==
  IF \E i \in 1..Len(atom_indices_str) : ~ IntOk(atom_indices_str[i])
  THEN Fail("indices_parse")
  ELSE IF Len(ls) < 7 THEN Fail("too_short")
  ELSE IF ~ (AllFloat(ls[3]) /\ AllFloat(ls[4]) /\ AllFloat(ls[5]))
  THEN Fail("lattice_parse")
  ELSE
    LET header == ls[1]
        scaling == ls[2]
        c_vec == Floats(ls[5])
        indices == AtomIndices(atom_indices_str)
        nosym == IsAtomCountLineTranslate(ls[6])
        coords_start == IF nosym THEN 7 ELSE 8
    IN  IF ~ nosym /\ Len(ls) < 8 THEN Fail("crash")
        ELSE
          LET chem_symbols == IF nosym THEN header ELSE ls[6]
              atom_counts_line == IF nosym THEN ls[6] ELSE ls[7]
              coord_sys_line == IF nosym THEN ls[7] ELSE ls[8]
          IN  IF ~ CountsOk(atom_counts_line) THEN Fail("counts_parse")
              ELSE
                LET natoms == CountsSum(atom_counts_line)
                    bad == {i \in 1..natoms :
                              TranslateAtomErr(ls[coords_start + i], i - 1,
                                               indices, c_vec) # ""}
                IN  IF Len(ls) < coords_start + natoms
                    THEN Fail("not_enough_lines")
                    ELSE IF CNorm(c_vec) = 0 THEN Fail("zero_c")
                    ELSE IF bad # {}
                    THEN Fail(LET i == CHOOSE j \in bad : \A h \in bad : j <= h
                              IN  TranslateAtomErr(ls[coords_start + i], i - 1,
                                                   indices, c_vec))
                    ELSE Result("",
                           <<header, scaling, ls[3], ls[4], ls[5],
                             chem_symbols, atom_counts_line, coord_sys_line>>,
                           [i \in 1..natoms |->
                              TranslateAtom(ls[coords_start + i], i - 1,
                                            indices, c_vec)])

\* format_coord: coord[0], coord[1], coord[2]
format_coord(coord) ==
  <<FormatNumberA(coord[1]), FormatNumberA(coord[2]), FormatNumberA(coord[3])>>

\* ------------------------------------------------------------ the runs
VARIABLES
  op,            \* the script that runs
  lines,         \* f.readlines() of the input file
  arg,           \* the command line arguments after the two file names
  pc,            \* "start" | "ready" | "writing" | "done" | "failed"
  err,           \* what ended a failed run
  header_block,  \* the header lines the script is about to write
  body,          \* the coordinate lines (translate_c: vectors) it is about to write
  out            \* the output file

vars == <<op, lines, arg, pc, err, header_block, body, out>>

Ops == {"lattice", "restore", "direct", "translate"}

\* ----- input documents
Header == <<W("Si"), W("O")>>
Scaling == <<F(1000)>>
AVector == <<F(5000), F(0), F(250)>>
BVector == <<F(0), F(5000), F(0)>>

CLines == { <<F(0), F(0), F(1000)>>,
            <<F(300), F(0), F(400)>>,
            <<F(0), F(0), F(0)>>,
            <<F(0), F(1000)>>,
            <<W("c"), F(0), F(0)>> }

\* what stands between the lattice and the counts line
SymbolLines == { <<>>, << <<W("Si"), W("O")>> >>, << <<>> >> }

CountLines == { <<I(1)>>, <<I(1), I(1)>> }

CoordSysLines == { <<W("Direct")>>, <<W("Cartesian")>>, <<W("xyz")>>, <<>> }

AtomLines == { <<F(250), F(0), F(0)>>,
               <<F(0), F(0), F(500)>>,
               <<F(0), F(0), F(1)>>,
               <<F(0), F(0), F(500), W("T")>>,
               <<W("x"), F(0), F(0)>>,
               <<>> }

AtomSeqs == UNION {[1..n -> AtomLines] : n \in 0..MaxAtoms}

Doc(c, sym, counts, cs, atoms) ==
  <<Header, Scaling, AVector, BVector, c>> \o sym \o <<counts, cs>> \o atoms

RegularDocs ==
  { Doc(c, sym, counts, cs, atoms) :
      c \in CLines, sym \in SymbolLines, counts \in CountLines,
      cs \in CoordSysLines, atoms \in AtomSeqs }

\* a file cut short, and a counts line that is no list of integers
OddDocs ==
  { <<Header, Scaling, AVector, BVector, <<F(0), F(0), F(1000)>> >>,
    <<Header, Scaling, AVector, BVector, <<F(0), F(0), F(1000)>>,
      <<W("Si")>>, <<I(1)>> >>,
    Doc(<<F(0), F(0), F(1000)>>, << <<W("Si")>> >>, <<F(500)>>,
        <<W("Direct")>>, << <<F(0), F(0), F(0)>> >>) }

Docs == RegularDocs \cup OddDocs

NoArg == [delta_z |-> 0, atom_index |-> 0, target |-> 0, atom_indices_str |-> <<>>]

Args(o) ==
  CASE o = "lattice" ->
         { [NoArg EXCEPT !.delta_z = d] : d \in {0, 500, 1} }
    [] o = "restore" -> { NoArg }
    [] o = "direct" ->
         { [NoArg EXCEPT !.atom_index = k, !.target = t] :
             k \in 0..(MaxAtoms + 1), t \in {0, 500, 1500} }
    [] o = "translate" ->
         { [NoArg EXCEPT !.atom_indices_str = q] :
             q \in { <<I(k)>> : k \in 0..(MaxAtoms + 1) }
                   \cup { <<I(1), I(1)>>, <<I(1), I(2)>>, <<W("a")>> } }

NoFile == [exists |-> FALSE, lines |-> <<>>]

InitFor(os) ==
  /\ op \in os
  /\ lines \in Docs
  /\ arg \in Args(op)
  /\ pc = "start"
  /\ err = ""
  /\ header_block = <<>>
  /\ body = <<>>
  /\ out = NoFile

Init == InitFor(Ops)

\* ----- the part of main() before open(outfile, "w")
Finish(r) ==
  /\ pc' = IF r.err = "" THEN "ready" ELSE "failed"
  /\ err' = r.err
  /\ header_block' = r.header_block
  /\ body' = r.body
  /\ UNCHANGED <<op, lines, arg, out>>

modify_c_lattice ==
  /\ pc = "start" /\ op = "lattice"
  /\ Finish(LatticeMain(lines, arg.delta_z))

restore_z ==
  /\ pc = "start" /\ op = "restore"
  /\ Finish(RestoreMain(lines))

shift_c_direct ==
  /\ pc = "start" /\ op = "direct"
  /\ Finish(DirectMain(lines, arg.atom_index, arg.target))

translate_c ==
  /\ pc = "start" /\ op = "translate"
  /\ Finish(TranslateMain(lines, arg.atom_indices_str))

\* ----- with open(outfile, "w") as f: the file is created or truncated
OpenOutput ==
  /\ pc = "ready"
  /\ out' = [exists |-> TRUE, lines |-> <<>>]
  /\ pc' = "writing"
  /\ UNCHANGED <<op, lines, arg, err, header_block, body>>

\* the coordinates translate_c formats while it writes: format_coord reads
\* coord[0..2], so the first vector shorter than 3 ends the loop
Writable(coords) ==
  IF \E i \in 1..Len(coords) : Len(coords[i]) < 3
  THEN (CHOOSE i \in 1..Len(coords) :
          /\ Len(coords[i]) < 3
          /\ \A h \in 1..(i - 1) : Len(coords[h]) >= 3) - 1
  ELSE Len(coords)

\* ----- the two write loops
WriteOutput ==
  /\ pc = "writing"
  /\ IF op = "translate"
     THEN /\ out' = [exists |-> TRUE,
                     lines |-> header_block \o
                       [i \in 1..Writable(body) |-> format_coord(body[i])]]
          /\ pc' = IF Writable(body) = Len(body) THEN "done" ELSE "failed"
          /\ err' = IF Writable(body) = Len(body) THEN "" ELSE "crash"
     ELSE /\ out' = [exists |-> TRUE, lines |-> header_block \o body]
          /\ pc' = "done"
          /\ err' = ""
  /\ UNCHANGED <<op, lines, arg, header_block, body>>

Next ==
  \/ modify_c_lattice
  \/ restore_z
  \/ shift_c_direct
  \/ translate_c
  \/ OpenOutput
  \/ WriteOutput

Spec == Init /\ [][Next]_vars

\* one script at a time
NextLattice == modify_c_lattice \/ OpenOutput \/ WriteOutput
SpecLattice == InitFor({"lattice"}) /\ [][NextLattice]_vars

NextRestore == restore_z \/ OpenOutput \/ WriteOutput
SpecRestore == InitFor({"restore"}) /\ [][NextRestore]_vars

NextDirect == shift_c_direct \/ OpenOutput \/ WriteOutput
SpecDirect == InitFor({"direct"}) /\ [][NextDirect]_vars

NextTranslate == translate_c \/ OpenOutput \/ WriteOutput
SpecTranslate == InitFor({"translate"}) /\ [][NextTranslate]_vars

\* ---------------------------------------------------------------- claims
\* The document as the specification reads it.  The layout rule is "line 5
\* is the counts line when each of its tokens is made of digits"; a blank
\* line 5 is left out of the claims below that need the layout, because the
\* scripts do not agree on it (C7).
NoSym(ls) == \A i \in 1..Len(ls[6]) : IsDigit(ls[6][i])
CoordsStart(ls) == IF NoSym(ls) THEN 7 ELSE 8
CountsLine(ls) == IF NoSym(ls) THEN ls[6] ELSE ls[7]
CoordSysLine(ls) == IF NoSym(ls) THEN ls[7] ELSE ls[8]
SymbolsLine(ls) == IF NoSym(ls) THEN ls[1] ELSE ls[6]

\* the header block is complete, line 5 is not blank, the counts are integers
WellFormed(ls) ==
  /\ Len(ls) >= 7
  /\ ls[6] # <<>>
  /\ Len(ls) >= CoordsStart(ls)
  /\ CountsOk(CountsLine(ls))

\* ... and the c vector is three numbers, not all zero
Clean(ls) ==
  /\ WellFormed(ls)
  /\ Len(ls[5]) = 3 /\ AllFloat(ls[5])
  /\ Floats(ls[5]) # <<0, 0, 0>>

ExpectedAtoms(ls) == CountsSum(CountsLine(ls))
AtomLinesPresent(ls) == Len(ls) - CoordsStart(ls)
InAtom(i) == lines[CoordsStart(lines) + i]

\* ... and the sum(counts) coordinate lines are there, three numbers each
CleanAtoms(ls) ==
  /\ Clean(ls)
  /\ AtomLinesPresent(ls) >= ExpectedAtoms(ls)
  /\ \A i \in 1..ExpectedAtoms(ls) :
       Len(ls[CoordsStart(ls) + i]) = 3 /\ AllFloat(ls[CoordsStart(ls) + i])

\* the lines of the output after the header block the script wrote
OutAtoms == SubSeq(out.lines, Len(header_block) + 1, Len(out.lines))

\* C1: an input with fewer coordinate lines than sum(counts) makes every
\* script fail and write nothing, and no script succeeds with a number of
\* atom lines other than sum(counts).
C1_ShortInputFails ==
  Clean(lines) =>
    /\ AtomLinesPresent(lines) < ExpectedAtoms(lines)
         => pc # "done" /\ ~ out.exists
    /\ pc = "done" => Len(OutAtoms) = ExpectedAtoms(lines)

\* C2: DirectCShift(k, t) on a direct document with n atoms, 1 <= k <= n:
\* every output atom i has z = (z_i + t - z_k) mod 1.0, a value in [0, 1),
\* atom k has z = t mod 1.0, and x, y and the order of the atoms are those
\* of the input.  (The mod is the exact one; the output is compared at the
\* precision it is written with, and 1.0 is taken for 0.0 in that
\* comparison, so that only the range conjunct tells them apart.)
C2_DirectShift ==
  (op = "direct" /\ pc = "done" /\ Clean(lines)
     /\ AtomLinesPresent(lines) >= ExpectedAtoms(lines)) =>
    LET n == ExpectedAtoms(lines)
        k == arg.atom_index
        z(i) == ToFloat(InAtom(i)[3])
    IN  /\ Len(OutAtoms) = n
        /\ \A i \in 1..n :
             /\ ToFloat(OutAtoms[i][3]) >= 0
             /\ ToFloat(OutAtoms[i][3]) < One
             /\ ToFloat(OutAtoms[i][3]) % One =
                  FormatNumberB((z(i) + arg.target - z(k)) % One).v % One
             /\ ToFloat(OutAtoms[i][1]) = ToFloat(InAtom(i)[1])
             /\ ToFloat(OutAtoms[i][2]) = ToFloat(InAtom(i)[2])
        /\ ToFloat(OutAtoms[k][3]) = arg.target % One

\* C6: for every script and every atom line with tokens after its first
\* three, the run is not rejected because of them and the output line of
\* that atom ends with the same tokens in the same order.
C6_ExtrasKept ==
  (Clean(lines) /\ CoordSysLine(lines) # <<>>) =>
    /\ pc = "done" =>
         \A i \in 1..Len(OutAtoms) :
           (i <= AtomLinesPresent(lines) /\ Len(InAtom(i)) > 3)
             => SubSeq(OutAtoms[i], 4, Len(OutAtoms[i])) = Extras(InAtom(i))
    /\ (pc = "failed" /\ err = "coord_parse") =>
         \E i \in 1..AtomLinesPresent(lines) : ~ AllFloat(First3(InAtom(i)))

\* C7: the four scripts classify input line 5 alike, as the counts line
\* exactly when each of its whitespace separated tokens is made of digits
\* (so also when it has no token at all).
C7_SameSniffing ==
  (pc = "done" /\ Len(lines) >= 6) =>
    LET counts == \A i \in 1..Len(lines[6]) : IsDigit(lines[6][i])
    IN  /\ IsAtomCountLineLattice(lines[6]) = counts
        /\ IsAtomCountLineRestore(lines[6]) = counts
        /\ IsAtomCountLineDirect(lines[6]) = counts
        /\ IsAtomCountLineTranslate(lines[6]) = counts

\* C8: LatticeCShift, AxisRestore and PeriodicTranslate reject a document
\* for its coordinate system exactly when the indicator is empty or starts
\* with none of c, k, d; DirectCShift exactly when it does not start with d.
\* A rejected run writes nothing.
BadCoordSys(line, letters) == line = <<>> \/ FirstLower(line) \notin letters

C8_CoordSysValidation ==
  Clean(lines) =>
    LET letters == IF op = "direct" THEN {"d"} ELSE {"c", "k", "d"}
        bad == BadCoordSys(CoordSysLine(lines), letters)
    IN  /\ (pc = "failed" /\ err = "coord_sys") => bad /\ ~ out.exists
        /\ bad => pc # "done" /\ ~ out.exists

\* C9: DirectCShift and PeriodicTranslate fail, and write nothing, when a
\* given atom index is below 1 or above sum(counts).
GivenIndices ==
  IF op = "direct" THEN {arg.atom_index}
  ELSE IF op = "translate"
  THEN {arg.atom_indices_str[i].v : i \in 1..Len(arg.atom_indices_str)}
  ELSE {}

C9_IndexRange ==
  (CleanAtoms(lines)
     /\ \E k \in GivenIndices : k < 1 \/ k > ExpectedAtoms(lines))
    => pc # "done" /\ ~ out.exists

\* C10: a successful run of any script writes header, scaling, three
\* lattice lines, the symbols line (the input's, or the header's tokens),
\* the counts line, the coordinate system line and then sum(counts) atom
\* lines: 8 + sum(counts) lines whatever the layout and whatever follows
\* the coordinates in the input.
C10_OutputShape ==
  (pc = "done" /\ Clean(lines)
     /\ AtomLinesPresent(lines) >= ExpectedAtoms(lines)) =>
    /\ Len(out.lines) = 8 + ExpectedAtoms(lines)
    /\ out.lines[1] = lines[1]
    /\ out.lines[2] = lines[2]
    /\ out.lines[6] = SymbolsLine(lines)
    /\ out.lines[7] = CountsLine(lines)
    /\ out.lines[8] = CoordSysLine(lines)

\* ----- C3
\* atom i (1-based) is named in the atom_indices argument
Selected(i) ==
  \E j \in 1..Len(arg.atom_indices_str) : arg.atom_indices_str[j].v = i

\* C3 (as amended): in a successful PeriodicTranslate run every selected
\* atom is written as old + c when its projection on the unit vector of c
\* is below |c|/2 and as old - c otherwise (equality included), every other
\* atom keeps its position, an index given twice moves its atom once; each
\* written value is the float result rounded to the decimals of Profile A.
C3_TranslateRule ==
  (op = "translate" /\ pc = "done") =>
    LET c_vec == Floats(lines[5])
        n == ExpectedAtoms(lines)
    IN  /\ Len(OutAtoms) = n
        /\ \A i \in 1..n :
             LET old == Floats(InAtom(i))
                 new == IF ~ Selected(i) THEN old
                        ELSE IF Proj(old, c_vec) < Threshold(c_vec)
                        THEN [h \in 1..3 |-> FAdd(old[h], c_vec[h])]
                        ELSE [h \in 1..3 |-> FSub(old[h], c_vec[h])]
             IN  OutAtoms[i] = [h \in 1..3 |-> FormatNumberA(new[h])]

\* C3 as stated: the written position is old + c, old - c or old itself
C3_TranslateExact ==
  (op = "translate" /\ pc = "done" /\ CleanAtoms(lines)
     /\ \A i \in 1..Len(arg.atom_indices_str) :
          arg.atom_indices_str[i].v \in 1..ExpectedAtoms(lines)) =>
    LET c_vec == Floats(lines[5])
    IN  \A i \in 1..ExpectedAtoms(lines) :
          LET old == Floats(InAtom(i))
              new == Floats(OutAtoms[i])
          IN  \A h \in 1..3 :
                new[h] = IF ~ Selected(i) THEN old[h]
                         ELSE IF Proj(old, c_vec) < Threshold(c_vec)
                         THEN old[h] + c_vec[h]
                         ELSE old[h] - c_vec[h]

\* a run that moved atom 1, whose projection is exactly |c|/2, and left
\* atom 2 where it was
C3_Witness ==
  /\ op = "translate" /\ pc = "done"
  /\ ExpectedAtoms(lines) = 2
  /\ Selected(1) /\ ~ Selected(2)
  /\ Proj(Floats(InAtom(1)), Floats(lines[5])) = Threshold(Floats(lines[5]))
  /\ Floats(OutAtoms[1])[3] < 0

\* ----- C4
LatticeCoordsStart(ls) == IF IsAtomCountLineLattice(ls[6]) THEN 7 ELSE 8
LatticeInAtom(i) == lines[LatticeCoordsStart(lines) + i]

\* C4 (as amended): a successful LatticeCShift(delta_z) run writes the c
\* vector (0, 0, c_z + delta_z), leaves header, scaling and counts as they
\* were, and writes a, b and every atom position with the input's values;
\* with delta_z = 0 the z of c is the input's.  Each written number is the
\* value rounded to the decimals of Profile A.
C4_LatticeFrame ==
  (op = "lattice" /\ pc = "done") =>
    LET cs == LatticeCoordsStart(lines)
    IN  /\ out.lines[5] =
             <<FormatNumberA(0), FormatNumberA(0),
               FormatNumberA(Fl(ToFloat(lines[5][3]) + arg.delta_z))>>
        /\ arg.delta_z = 0 => out.lines[5][3] = FormatNumberA(ToFloat(lines[5][3]))
        /\ \A j \in 3..4 :
             out.lines[j] = [h \in 1..Len(lines[j]) |->
                               FormatNumberA(ToFloat(lines[j][h]))]
        /\ out.lines[1] = lines[1]
        /\ out.lines[2] = lines[2]
        /\ out.lines[7] = lines[cs - 1]
        /\ Len(OutAtoms) = Len(lines) - cs
        /\ \A i \in 1..Len(OutAtoms) :
             IF Len(LatticeInAtom(i)) >= 3 /\ AllFloat(First3(LatticeInAtom(i)))
             THEN \A h \in 1..3 :
                    OutAtoms[i][h] = FormatNumberA(ToFloat(LatticeInAtom(i)[h]))
             ELSE OutAtoms[i] = LatticeInAtom(i)

\* C4 as stated: c is exactly (0, 0, c_z + delta_z) and a, b and the atom
\* positions are numerically those of the input
C4_LatticeExact ==
  (op = "lattice" /\ pc = "done" /\ Clean(lines)) =>
    /\ Floats(out.lines[5]) = <<0, 0, ToFloat(lines[5][3]) + arg.delta_z>>
    /\ Floats(out.lines[3]) = Floats(lines[3])
    /\ Floats(out.lines[4]) = Floats(lines[4])
    /\ \A i \in 1..Len(OutAtoms) :
         (Len(LatticeInAtom(i)) >= 3 /\ AllFloat(First3(LatticeInAtom(i))))
           => Floats(First3(OutAtoms[i])) = Floats(First3(LatticeInAtom(i)))

\* a run with delta_z # 0 on a c vector with an x component and an atom
C4_Witness ==
  /\ op = "lattice" /\ pc = "done"
  /\ arg.delta_z = 500
  /\ ToFloat(lines[5][1]) # 0
  /\ Floats(out.lines[5]) = <<0, 0, 900>>
  /\ Len(OutAtoms) >= 1
  /\ AllFloat(LatticeInAtom(1)) /\ Len(LatticeInAtom(1)) = 3

\* ----- C5
IsTriple(line) == Len(line) = 3 /\ AllFloat(line)

\* C5 (as amended): AxisRestore writes each lattice line and each of the
\* sum(counts) atom lines that has exactly three tokens, all of them
\* numbers, as (t1, t2, t0), each value rounded to the decimals of
\* Profile A, and every other line unchanged; three applications give such
\* a line its component order back.
C5_RestoreLines ==
  (op = "restore" /\ pc = "done") =>
    LET want(l) == IF IsTriple(l)
                   THEN <<FormatNumberA(ToFloat(l[2])),
                          FormatNumberA(ToFloat(l[3])),
                          FormatNumberA(ToFloat(l[1]))>>
                   ELSE l
        thrice(l) == reorder_and_format_line(
                       reorder_and_format_line(reorder_and_format_line(l)))
        n == ExpectedAtoms(lines)
    IN  /\ \A j \in 3..5 : out.lines[j] = want(lines[j])
        /\ Len(OutAtoms) = n
        /\ \A i \in 1..n : OutAtoms[i] = want(InAtom(i))
        /\ \A j \in (3..5) \cup ((CoordsStart(lines) + 1)..(CoordsStart(lines) + n)) :
             IsTriple(lines[j]) =>
               thrice(lines[j]) = [h \in 1..3 |-> FormatNumberA(ToFloat(lines[j][h]))]

\* C5 as stated: every line of exactly three tokens is written with its
\* tokens in the order (t1, t2, t0); a written token is the same as a read
\* one when they are the same word or the same number as Profile A shows it
SameToken(t, u) ==
  /\ t.s = u.s
  /\ FormatNumberA(ToFloat(t)).v = FormatNumberA(ToFloat(u)).v

C5_RestoreExact ==
  (op = "restore" /\ pc = "done" /\ Clean(lines)) =>
    \A i \in 1..ExpectedAtoms(lines) :
      Len(InAtom(i)) = 3 =>
        /\ SameToken(OutAtoms[i][1], InAtom(i)[2])
        /\ SameToken(OutAtoms[i][2], InAtom(i)[3])
        /\ SameToken(OutAtoms[i][3], InAtom(i)[1])

\* a run that reordered a numeric atom line with three different values
\* in the lattice and passed a four token atom line through
C5_Witness ==
  /\ op = "restore" /\ pc = "done"
  /\ ExpectedAtoms(lines) = 2
  /\ IsTriple(InAtom(1)) /\ Floats(InAtom(1)) = <<0, 0, 500>>
  /\ Floats(OutAtoms[1]) = <<0, 500, 0>>
  /\ Len(InAtom(2)) = 4 /\ OutAtoms[2] = InAtom(2)
  /\ Floats(lines[5]) = <<300, 0, 400>>
  /\ Floats(out.lines[5]) = <<0, 400, 300>>

\* ----- C11
\* C11: in every run of each of the four scripts the output file is opened
\* only after every parsing and validation step has passed, so a run that
\* ends in a failure has never created, truncated or written the output
\* file.  Stated for inputs whose header is well formed, whose coordinate
\* system indicator starts with c, k or d and whose atom indices are in
\* range, so that the only thing left to fail is the coordinate block.
C11_NoOutputOnFailure ==
  (/\ pc = "failed"
   /\ Clean(lines)
   /\ ~ BadCoordSys(CoordSysLine(lines), {"c", "k", "d"})
   /\ \A k \in GivenIndices : k \in 1..ExpectedAtoms(lines))
    => ~ out.exists

====
